---- MODULE Spec2Model ----
(***************************************************************************)
(* A model of atlas_hfdatasets: the command-line front end (main) and the  *)
(* library operations remove_dataset, list_datasets, upload_dataset and    *)
(* download_dataset (whole repository, and every configuration).           *)
(*                                                                         *)
(* Python strings are sequences of one-character strings, so that          *)
(* str.lower, str.split, os.path.join, os.path.normpath, os.path.basename  *)
(* and re.search are computed and not assumed.  An optional value is a     *)
(* sequence of length 0 (None) or 1.  One behaviour is one invocation.     *)
(***************************************************************************)
EXTENDS Integers, Sequences, FiniteSets, TLC

VARIABLES
    op,           \* the function the caller invoked ("none" before the call)
    pc,           \* position inside the running function
    outcome,      \* "none" while running, then "returned" or "raised"
    error,        \* the call that raised an exception, or "none"
    repo_name,    \* repo_name argument (remove, download, upload target)
    force,        \* remove_dataset: force argument
    confirm,      \* remove_dataset: optional answer read by input()
    prompts,      \* remove_dataset: number of input() prompts issued
    deleteCalls,  \* delete_repo calls made, in order
    keyword,      \* list_datasets: optional keyword argument
    hub,          \* list_datasets: what api.list_datasets will give
    datasets,     \* list_datasets: the local variable `datasets`
    stdout,       \* list_datasets: what was printed, in order
    errlog,       \* number of logging.error records written
    dataset_path, \* upload_dataset: dataset_path argument
    public,       \* upload_dataset: public argument
    pushCalls,    \* push_to_hub calls made, in order
    output_dir,   \* download_dataset: output_dir argument
    configs,      \* download_dataset: the local variable `configs`
    i,            \* download_dataset: index of the configuration in the loop
    fetchCalls,   \* load_dataset calls made, in order
    saveCalls,    \* save_to_disk calls made, in order
    completed,    \* "downloaded to" records logged, in order
    failedAt,     \* download_dataset: index of the configuration that failed, or 0
    disk0,        \* the filesystem when the function was called
    disk,         \* the filesystem: directories and dataset directories
    argv,         \* main: the command line
    dispatched,   \* main: optional name of the operation main called
    helpPrinted   \* main: TRUE once parser.print_help() ran

vars == <<op, pc, outcome, error, repo_name, force, confirm, prompts,
          deleteCalls, keyword, hub, datasets, stdout, errlog, dataset_path,
          public, pushCalls, output_dir, configs, i, fetchCalls, saveCalls,
          completed, failedAt, disk0, disk, argv, dispatched, helpPrinted>>

rmVars == <<force, confirm, prompts, deleteCalls>>
lsVars == <<keyword, hub, datasets, stdout>>
upVars == <<dataset_path, public, pushCalls>>
dlVars == <<output_dir, configs, i, fetchCalls, saveCalls, completed, failedAt,
           disk0, disk>>
cliVars == <<argv, dispatched, helpPrinted>>

(***************************************************************************)
(* Bounds of the model.                                                    *)
(***************************************************************************)
MaxConfirmLen == 3
MaxPathLen == 4
MaxConfigs == 2
MaxRepos == 2
MaxKeywordLen == 2

(***************************************************************************)
(* Strings.                                                                *)
(***************************************************************************)
None == <<>>
Some(x) == <<x>>

SeqsUpTo(S, n) == UNION {[1..k -> S] : k \in 0..n}

Last(s) == s[Len(s)]

\* str.startswith / str.endswith
StartsWith(s, p) == Len(s) >= Len(p) /\ SubSeq(s, 1, Len(p)) = p
EndsWith(s, p) == Len(s) >= Len(p) /\ SubSeq(s, Len(s) - Len(p) + 1, Len(s)) = p

\* str.lower on one character of the model's alphabet
LowerChar(c) ==
    CASE c = "Y" -> "y"
      [] c = "A" -> "a"
      [] c = "B" -> "b"
      [] OTHER -> c

\* str.lower
Lower(s) == [k \in 1..Len(s) |-> LowerChar(s[k])]

\* str.split(sep) for a one-character sep: the pieces between separators,
\* empty pieces included
RECURSIVE Split(_, _)
Split(s, sep) ==
    IF \A k \in 1..Len(s) : s[k] # sep
    THEN <<s>>
    ELSE LET k == CHOOSE k \in 1..Len(s) :
                      s[k] = sep /\ \A j \in 1..(k - 1) : s[j] # sep
         IN <<SubSeq(s, 1, k - 1)>> \o Split(SubSeq(s, k + 1, Len(s)), sep)

\* sep.join(parts)
RECURSIVE Join(_, _)
Join(parts, sep) ==
    IF parts = <<>> THEN <<>>
    ELSE IF Len(parts) = 1 THEN parts[1]
    ELSE parts[1] \o <<sep>> \o Join(Tail(parts), sep)

(***************************************************************************)
(* remove_dataset(repo_name, force)                                        *)
(***************************************************************************)
RepoNames == { <<"o", "/", "d">>, <<"d">>, <<"o", "/", "p", "/", "d">>, <<"o", "/">> }

ConfirmAlphabet == {"y", "Y", "n", "e", "s", " "}
ConfirmInputs == SeqsUpTo(ConfirmAlphabet, MaxConfirmLen)

\* `if not force:` -- a prompt is needed
NeedsConfirm(f) == ~f

\* `if confirm.lower() != 'y':` -- the deletion is cancelled
\* (variants: cancelling only on 'n'; comparing without lower())
Cancelled_OnlyOnN(c) == Lower(c) = <<"n">>
Cancelled_CaseSensitive(c) == c # <<"y">>
Cancelled(c) == Lower(c) # <<"y">>

CallRemove ==
    /\ pc = "idle"
    /\ \E r \in RepoNames, f \in BOOLEAN :
          /\ repo_name' = r
          /\ force' = f
    /\ op' = "remove_dataset"
    /\ pc' = "rm_check"
    /\ UNCHANGED <<outcome, error, confirm, prompts, deleteCalls, errlog>>
    /\ UNCHANGED <<lsVars, upVars, dlVars, cliVars>>

\* force is set: straight to the deletion
RemoveForced ==
    /\ pc = "rm_check"
    /\ ~NeedsConfirm(force)
    /\ pc' = "rm_delete"
    /\ UNCHANGED <<op, outcome, error, repo_name, rmVars, errlog>>
    /\ UNCHANGED <<lsVars, upVars, dlVars, cliVars>>

\* input(...) gives an answer
RemovePrompt ==
    /\ pc = "rm_check"
    /\ NeedsConfirm(force)
    /\ \E c \in ConfirmInputs :
          /\ confirm' = Some(c)
          /\ prompts' = prompts + 1
          /\ IF Cancelled(c)
             THEN pc' = "done" /\ outcome' = "returned"
             ELSE pc' = "rm_delete" /\ outcome' = outcome
    /\ UNCHANGED <<op, error, repo_name, force, deleteCalls, errlog>>
    /\ UNCHANGED <<lsVars, upVars, dlVars, cliVars>>

\* input(...) meets the end of the input: EOFError leaves the function
RemovePromptEOF ==
    /\ pc = "rm_check"
    /\ NeedsConfirm(force)
    /\ prompts' = prompts + 1
    /\ pc' = "done"
    /\ outcome' = "raised"
    /\ error' = "input"
    /\ UNCHANGED <<op, repo_name, force, confirm, deleteCalls, errlog>>
    /\ UNCHANGED <<lsVars, upVars, dlVars, cliVars>>

\* delete_repo(repo_name, repo_type="dataset"): accepted or rejected by the hub
RemoveDelete ==
    /\ pc = "rm_delete"
    /\ deleteCalls' = Append(deleteCalls, repo_name)
    /\ pc' = "done"
    /\ \E accepted \in BOOLEAN :
          IF accepted
          THEN outcome' = "returned" /\ error' = error
          ELSE outcome' = "raised" /\ error' = "delete_repo"
    /\ UNCHANGED <<op, repo_name, force, confirm, prompts, errlog>>
    /\ UNCHANGED <<lsVars, upVars, dlVars, cliVars>>

(***************************************************************************)
(* Paths.                                                                  *)
(***************************************************************************)
\* os.path.join(a, *p): a component that starts with the separator replaces
\* what was joined before it; a separator is added only where none ends the
\* path so far
RECURSIVE OsPathJoin(_, _)
OsPathJoin(a, p) ==
    IF p = <<>> THEN a
    ELSE LET b == Head(p)
             path == IF StartsWith(b, <<"/">>) THEN b
                     ELSE IF a = <<>> \/ EndsWith(a, <<"/">>) THEN a \o b
                     ELSE a \o <<"/">> \o b
         IN OsPathJoin(path, Tail(p))

\* repo_name.split('/')[-1]
\* (variant: [0] for [-1])
ShortName_First(repo) == Head(Split(repo, "/"))
ShortName(repo) == Last(Split(repo, "/"))

\* os.path.join(output_dir, repo_name.split('/')[-1], config)
ConfigOutputPath(dir, repo, config) == OsPathJoin(dir, <<ShortName(repo), config>>)

\* os.path.join(output_dir, repo_name.split('/')[-1])
WholeOutputPath(dir, repo) == OsPathJoin(dir, <<ShortName(repo)>>)

Dir(p) == [path |-> p, kind |-> "dir"]
Dataset(p) == [path |-> p, kind |-> "dataset"]
Partial(p) == [path |-> p, kind |-> "partial"]

\* os.makedirs(output_dir, exist_ok=True) cannot create the empty path
MakedirsCanSucceed(dir) == dir # <<>>

\* what a save_to_disk that raised may have left at the path
AfterFailedSave(d, p) == {d, (d \ {Dataset(p)}) \cup {Partial(p)}}

(***************************************************************************)
(* download_dataset(repo_name, output_dir), every configuration            *)
(* (atlas_hfdatasets/src/download.py)                                      *)
(***************************************************************************)
OutputDirs == { <<"t">>, <<"t", "/">>, <<".", "/">>, <<"/">>, <<"t", "/", "u">>, <<>> }

ConfigNameSet == { <<"a">>, <<"b">>, <<"c", "d">> }

\* the lists get_dataset_config_names can give: distinct names, any order
ConfigLists ==
    { cs \in SeqsUpTo(ConfigNameSet, MaxConfigs) :
        \A j, k \in 1..Len(cs) : j # k => cs[j] # cs[k] }

\* the filesystem at the call: empty, or output_dir already there
InitialDisks(dir) == { {}, {Dir(dir)} }

\* `except Exception as e: logging.error(...); raise`
LogAndReraise(call, k) ==
    /\ errlog' = errlog + 1
    /\ error' = call
    /\ failedAt' = k
    /\ outcome' = "raised"
    /\ pc' = "done"

CallDownloadAll ==
    /\ pc = "idle"
    /\ \E r \in RepoNames, o \in OutputDirs :
          /\ repo_name' = r
          /\ output_dir' = o
          /\ \E d \in InitialDisks(o) : disk0' = d /\ disk' = d
    /\ op' = "download_all"
    /\ pc' = "dl_list"
    /\ UNCHANGED <<outcome, error, errlog, configs, i, fetchCalls, saveCalls,
                   completed, failedAt>>
    /\ UNCHANGED <<rmVars, lsVars, upVars, cliVars>>

\* configs = get_dataset_config_names(repo_name)
GetConfigNames ==
    /\ pc = "dl_list"
    /\ \E cs \in ConfigLists : configs' = cs
    /\ pc' = "dl_mkdir"
    /\ UNCHANGED <<op, outcome, error, errlog, repo_name, output_dir, i,
                   fetchCalls, saveCalls, completed, failedAt, disk0, disk>>
    /\ UNCHANGED <<rmVars, lsVars, upVars, cliVars>>

GetConfigNamesRaises ==
    /\ pc = "dl_list"
    /\ LogAndReraise("get_dataset_config_names", 0)
    /\ UNCHANGED <<op, repo_name, output_dir, configs, i, fetchCalls, saveCalls,
                   completed, disk0, disk>>
    /\ UNCHANGED <<rmVars, lsVars, upVars, cliVars>>

\* os.makedirs(output_dir, exist_ok=True), then the loop starts
Makedirs ==
    /\ pc = "dl_mkdir"
    /\ MakedirsCanSucceed(output_dir)
    /\ disk' = disk \cup {Dir(output_dir)}
    /\ i' = 1
    /\ pc' = "dl_loop"
    /\ UNCHANGED <<op, outcome, error, errlog, repo_name, output_dir, configs,
                   fetchCalls, saveCalls, completed, failedAt, disk0>>
    /\ UNCHANGED <<rmVars, lsVars, upVars, cliVars>>

MakedirsRaises ==
    /\ pc = "dl_mkdir"
    /\ LogAndReraise("makedirs", 0)
    /\ UNCHANGED <<op, repo_name, output_dir, configs, i, fetchCalls, saveCalls,
                   completed, disk0, disk>>
    /\ UNCHANGED <<rmVars, lsVars, upVars, cliVars>>

\* dataset = load_dataset(repo_name, config)
LoadDataset ==
    /\ pc = "dl_loop"
    /\ i <= Len(configs)
    /\ fetchCalls' = Append(fetchCalls, configs[i])
    /\ pc' = "dl_save"
    /\ UNCHANGED <<op, outcome, error, errlog, repo_name, output_dir, configs, i,
                   saveCalls, completed, failedAt, disk0, disk>>
    /\ UNCHANGED <<rmVars, lsVars, upVars, cliVars>>

\* (variant: the failure is logged inside the loop, which goes on)
LoadDatasetRaises_Continue ==
    /\ pc = "dl_loop"
    /\ i <= Len(configs)
    /\ fetchCalls' = Append(fetchCalls, configs[i])
    /\ errlog' = errlog + 1
    /\ error' = "load_dataset"
    /\ failedAt' = i
    /\ i' = i + 1
    /\ UNCHANGED <<op, pc, outcome, repo_name, output_dir, configs, saveCalls,
                   completed, disk0, disk>>
    /\ UNCHANGED <<rmVars, lsVars, upVars, cliVars>>

LoadDatasetRaises ==
    /\ pc = "dl_loop"
    /\ i <= Len(configs)
    /\ fetchCalls' = Append(fetchCalls, configs[i])
    /\ LogAndReraise("load_dataset", i)
    /\ UNCHANGED <<op, repo_name, output_dir, configs, i, saveCalls, completed,
                   disk0, disk>>
    /\ UNCHANGED <<rmVars, lsVars, upVars, cliVars>>

\* dataset.save_to_disk(output_path), then the "downloaded to" record
SaveToDisk ==
    /\ pc = "dl_save"
    /\ LET output_path == ConfigOutputPath(output_dir, repo_name, configs[i])
       IN /\ saveCalls' = Append(saveCalls, output_path)
          /\ disk' = (disk \ {Partial(output_path)}) \cup {Dataset(output_path)}
          /\ completed' = Append(completed,
                                 [config |-> configs[i], outputPath |-> output_path])
    /\ i' = i + 1
    /\ pc' = "dl_loop"
    /\ UNCHANGED <<op, outcome, error, errlog, repo_name, output_dir, configs,
                   fetchCalls, failedAt, disk0>>
    /\ UNCHANGED <<rmVars, lsVars, upVars, cliVars>>

\* (variant: the handler removes what the run has written)
SaveToDiskRaises_Rollback ==
    /\ pc = "dl_save"
    /\ saveCalls' = Append(saveCalls,
                           ConfigOutputPath(output_dir, repo_name, configs[i]))
    /\ disk' = disk0
    /\ LogAndReraise("save_to_disk", i)
    /\ UNCHANGED <<op, repo_name, output_dir, configs, i, fetchCalls, completed,
                   disk0>>
    /\ UNCHANGED <<rmVars, lsVars, upVars, cliVars>>

SaveToDiskRaises ==
    /\ pc = "dl_save"
    /\ LET output_path == ConfigOutputPath(output_dir, repo_name, configs[i])
       IN /\ saveCalls' = Append(saveCalls, output_path)
          /\ disk' \in AfterFailedSave(disk, output_path)
    /\ LogAndReraise("save_to_disk", i)
    /\ UNCHANGED <<op, repo_name, output_dir, configs, i, fetchCalls, completed,
                   disk0>>
    /\ UNCHANGED <<rmVars, lsVars, upVars, cliVars>>

\* the loop is exhausted: the function returns None
DownloadAllReturns ==
    /\ pc = "dl_loop"
    /\ i > Len(configs)
    /\ pc' = "done"
    /\ outcome' = "returned"
    /\ UNCHANGED <<op, error, errlog, repo_name>>
    /\ UNCHANGED <<rmVars, lsVars, upVars, dlVars, cliVars>>

(***************************************************************************)
(* download_dataset(repo_name, output_dir), the repository as a whole      *)
(* (atlas_hgdatasets/atlas_hgdatasets.py)                                  *)
(***************************************************************************)
CallDownload ==
    /\ pc = "idle"
    /\ \E r \in RepoNames, o \in OutputDirs :
          /\ repo_name' = r
          /\ output_dir' = o
          /\ \E d \in InitialDisks(o) : disk0' = d /\ disk' = d
    /\ op' = "download_dataset"
    /\ pc' = "dw_load"
    /\ UNCHANGED <<outcome, error, errlog, configs, i, fetchCalls, saveCalls,
                   completed, failedAt>>
    /\ UNCHANGED <<rmVars, lsVars, upVars, cliVars>>

\* dataset = load_dataset(repo_name)
WholeLoad ==
    /\ pc = "dw_load"
    /\ fetchCalls' = Append(fetchCalls, None)
    /\ \E ok \in BOOLEAN :
          IF ok
          THEN pc' = "dw_mkdir" /\ UNCHANGED <<outcome, error, errlog, failedAt>>
          ELSE LogAndReraise("load_dataset", 0)
    /\ UNCHANGED <<op, repo_name, output_dir, configs, i, saveCalls, completed,
                   disk0, disk>>
    /\ UNCHANGED <<rmVars, lsVars, upVars, cliVars>>

\* os.makedirs(output_dir, exist_ok=True)
WholeMakedirs ==
    /\ pc = "dw_mkdir"
    /\ \E ok \in {b \in BOOLEAN : b => MakedirsCanSucceed(output_dir)} :
          IF ok
          THEN /\ disk' = disk \cup {Dir(output_dir)}
               /\ pc' = "dw_save"
               /\ UNCHANGED <<outcome, error, errlog, failedAt>>
          ELSE /\ disk' = disk
               /\ LogAndReraise("makedirs", 0)
    /\ UNCHANGED <<op, repo_name, output_dir, configs, i, fetchCalls, saveCalls,
                   completed, disk0>>
    /\ UNCHANGED <<rmVars, lsVars, upVars, cliVars>>

\* dataset.save_to_disk(output_path), then the "downloaded to" record
WholeSave ==
    /\ pc = "dw_save"
    /\ LET output_path == WholeOutputPath(output_dir, repo_name)
       IN /\ saveCalls' = Append(saveCalls, output_path)
          /\ \E ok \in BOOLEAN :
                IF ok
                THEN /\ disk' = (disk \ {Partial(output_path)})
                                    \cup {Dataset(output_path)}
                     /\ completed' = Append(completed,
                                        [config |-> None, outputPath |-> output_path])
                     /\ pc' = "done"
                     /\ outcome' = "returned"
                     /\ UNCHANGED <<error, errlog, failedAt>>
                ELSE /\ disk' \in AfterFailedSave(disk, output_path)
                     /\ completed' = completed
                     /\ LogAndReraise("save_to_disk", 0)
    /\ UNCHANGED <<op, repo_name, output_dir, configs, i, fetchCalls, disk0>>
    /\ UNCHANGED <<rmVars, lsVars, upVars, cliVars>>

(***************************************************************************)
(* upload_dataset(dataset_path, repo_name, public)                         *)
(***************************************************************************)
PathAlphabet == {"/", "d", "m", "."}
DatasetPaths == SeqsUpTo(PathAlphabet, MaxPathLen)

\* the repo_name argument: omitted, the empty string, or a repository name
UploadRepoNames == { None, Some(<<>>), Some(<<"o", "/", "d">>) }

\* os.path.normpath: the number of leading separators that are kept
InitialSlashes(path) ==
    IF ~StartsWith(path, <<"/">>) THEN <<>>
    ELSE IF StartsWith(path, <<"/", "/">>) /\ ~StartsWith(path, <<"/", "/", "/">>)
    THEN <<"/", "/">>
    ELSE <<"/">>

\* os.path.normpath: the loop over path.split('/'), new_comps being the result
RECURSIVE NormComps(_, _, _)
NormComps(comps, new_comps, initial_slashes) ==
    IF comps = <<>> THEN new_comps
    ELSE LET comp == Head(comps)
             rest == Tail(comps)
         IN IF comp \in {<<>>, <<".">>}
            THEN NormComps(rest, new_comps, initial_slashes)
            ELSE IF \/ comp # <<".", ".">>
                    \/ (initial_slashes = <<>> /\ new_comps = <<>>)
                    \/ (new_comps # <<>> /\ Last(new_comps) = <<".", ".">>)
            THEN NormComps(rest, Append(new_comps, comp), initial_slashes)
            ELSE IF new_comps # <<>>
            THEN NormComps(rest, SubSeq(new_comps, 1, Len(new_comps) - 1),
                           initial_slashes)
            ELSE NormComps(rest, new_comps, initial_slashes)

\* os.path.normpath
Normpath(path) ==
    IF path = <<>> THEN <<".">>
    ELSE LET initial_slashes == InitialSlashes(path)
             normed == initial_slashes
                         \o Join(NormComps(Split(path, "/"), <<>>, initial_slashes), "/")
         IN IF normed = <<>> THEN <<".">> ELSE normed

\* os.path.basename: what follows the last separator
Basename(p) ==
    LET seps == {k \in 1..Len(p) : p[k] = "/"}
        idx == IF seps = {} THEN 0 ELSE CHOOSE k \in seps : \A j \in seps : j <= k
    IN SubSeq(p, idx + 1, Len(p))

\* `if repo_name is None: repo_name = os.path.basename(os.path.normpath(dataset_path))`
\* (variant: basename of the path as given)
UploadTarget_NoNormpath(path, rn) == IF rn = None THEN Basename(path) ELSE rn[1]
UploadTarget(path, rn) == IF rn = None THEN Basename(Normpath(path)) ELSE rn[1]

CallUpload ==
    /\ pc = "idle"
    /\ \E p \in DatasetPaths, rn \in UploadRepoNames, pub \in BOOLEAN :
          /\ dataset_path' = p
          /\ repo_name' = rn
          /\ public' = pub
    /\ op' = "upload_dataset"
    /\ pc' = "up_load"
    /\ UNCHANGED <<outcome, error, errlog, pushCalls>>
    /\ UNCHANGED <<rmVars, lsVars, dlVars, cliVars>>

\* dataset = load_from_disk(dataset_path)
LoadFromDisk ==
    /\ pc = "up_load"
    /\ pc' = "up_push"
    /\ UNCHANGED <<op, outcome, error, errlog, repo_name, upVars>>
    /\ UNCHANGED <<rmVars, lsVars, dlVars, cliVars>>

LoadFromDiskRaises ==
    /\ pc = "up_load"
    /\ pc' = "done"
    /\ outcome' = "raised"
    /\ error' = "load_from_disk"
    /\ UNCHANGED <<op, errlog, repo_name, upVars>>
    /\ UNCHANGED <<rmVars, lsVars, dlVars, cliVars>>

\* dataset.push_to_hub(repo_name, private=not public): accepted or rejected
PushToHub ==
    /\ pc = "up_push"
    /\ pushCalls' = Append(pushCalls,
                           [repo |-> UploadTarget(dataset_path, repo_name),
                            private |-> ~public])
    /\ pc' = "done"
    /\ \E accepted \in BOOLEAN :
          IF accepted
          THEN outcome' = "returned" /\ error' = error
          ELSE outcome' = "raised" /\ error' = "push_to_hub"
    /\ UNCHANGED <<op, errlog, repo_name, dataset_path, public>>
    /\ UNCHANGED <<rmVars, lsVars, dlVars, cliVars>>

(***************************************************************************)
(* list_datasets(username, keyword)                                        *)
(***************************************************************************)
RepoIds == { <<"a", "b">>, <<"B">>, <<"c">> }

KeywordAlphabet == {"a", "B", ".", "("}
Keywords == {None} \cup {Some(k) : k \in SeqsUpTo(KeywordAlphabet, MaxKeywordLen)}

\* What api.list_datasets(author=username) gives.  The huggingface_hub
\* dependency is not pinned: the call gives either a list, built (or failing)
\* inside the call, or a lazy iterator that retrieves while it is iterated
\* and fails, if it does, after `fail[1]` entries were delivered.
Hubs ==
    { [lazy |-> l, items |-> it, fail |-> f] :
        l \in BOOLEAN, it \in SeqsUpTo(RepoIds, MaxRepos),
        f \in {None} \cup {Some(k) : k \in 0..MaxRepos} }

HubStates ==
    { h \in Hubs : /\ h.fail # None => h.fail[1] <= Len(h.items)
                   /\ (~h.lazy /\ h.fail # None) => h.fail[1] = 0 }

\* truth value of `datasets`: a list is true when it is not empty, an
\* iterator object is always true
Truthy(ds) == ds.lazy \/ ds.items # <<>>

\* truth value of `keyword`: None and '' are false
KeywordGiven(kw) == kw # None /\ kw[1] # <<>>

\* re.compile(keyword, re.IGNORECASE) raises re.error: over KeywordAlphabet,
\* exactly the patterns with an opening parenthesis, which nothing closes
CompileRaises(pattern) == \E k \in 1..Len(pattern) : pattern[k] = "("

\* one pattern character against one character, re.IGNORECASE
CharMatches(p, c) == p = "." \/ LowerChar(p) = LowerChar(c)

\* pattern.search(d.id): the pattern matches at some position of the id
Search(pattern, id) ==
    \E start \in 1..(Len(id) + 1) :
        /\ start + Len(pattern) - 1 <= Len(id)
        /\ \A k \in 1..Len(pattern) : CharMatches(pattern[k], id[start + k - 1])

\* [d for d in datasets if pattern.search(d.id)]
RECURSIVE Filter(_, _)
Filter(items, pattern) ==
    IF items = <<>> THEN <<>>
    ELSE (IF Search(pattern, Head(items)) THEN <<Head(items)>> ELSE <<>>)
             \o Filter(Tail(items), pattern)

Line(k, id) == [kind |-> k, id |-> id]

\* `except Exception as e: logging.error(...)`: the function returns None
LogAndSwallow(call) ==
    /\ errlog' = errlog + 1
    /\ error' = call
    /\ outcome' = "returned"
    /\ pc' = "done"

CallList ==
    /\ pc = "idle"
    /\ \E kw \in Keywords, h \in HubStates :
          /\ keyword' = kw
          /\ hub' = h
    /\ op' = "list_datasets"
    /\ pc' = "ls_call"
    /\ UNCHANGED <<outcome, error, errlog, repo_name, datasets, stdout>>
    /\ UNCHANGED <<rmVars, upVars, dlVars, cliVars>>

\* datasets = api.list_datasets(author=username)
ListCall ==
    /\ pc = "ls_call"
    /\ hub.lazy \/ hub.fail = None
    /\ datasets' = [lazy |-> hub.lazy, items |-> hub.items, next |-> 1]
    /\ pc' = "ls_truth"
    /\ UNCHANGED <<op, outcome, error, errlog, repo_name, keyword, hub, stdout>>
    /\ UNCHANGED <<rmVars, upVars, dlVars, cliVars>>

ListCallRaises ==
    /\ pc = "ls_call"
    /\ ~hub.lazy /\ hub.fail # None
    /\ LogAndSwallow("list_datasets")
    /\ UNCHANGED <<op, repo_name, lsVars>>
    /\ UNCHANGED <<rmVars, upVars, dlVars, cliVars>>

\* `if datasets:` is false: "No datasets found for user"
ListNoDatasets ==
    /\ pc = "ls_truth"
    /\ ~Truthy(datasets)
    /\ stdout' = Append(stdout, Line("no_datasets", <<>>))
    /\ pc' = "done"
    /\ outcome' = "returned"
    /\ UNCHANGED <<op, error, errlog, repo_name, keyword, hub, datasets>>
    /\ UNCHANGED <<rmVars, upVars, dlVars, cliVars>>

\* `if keyword:` is false: nothing is filtered
ListNoKeyword ==
    /\ pc = "ls_truth"
    /\ Truthy(datasets)
    /\ ~KeywordGiven(keyword)
    /\ pc' = "ls_report"
    /\ UNCHANGED <<op, outcome, error, errlog, repo_name, lsVars>>
    /\ UNCHANGED <<rmVars, upVars, dlVars, cliVars>>

\* the pattern is compiled and the comprehension reads every entry
ListFilter ==
    /\ pc = "ls_truth"
    /\ Truthy(datasets)
    /\ KeywordGiven(keyword)
    /\ ~CompileRaises(keyword[1])
    /\ ~(datasets.lazy /\ hub.fail # None)
    /\ datasets' = [lazy |-> FALSE, items |-> Filter(datasets.items, keyword[1]),
                    next |-> 1]
    /\ pc' = "ls_report"
    /\ UNCHANGED <<op, outcome, error, errlog, repo_name, keyword, hub, stdout>>
    /\ UNCHANGED <<rmVars, upVars, dlVars, cliVars>>

\* re.compile raises, or the iterator raises inside the comprehension
ListFilterRaises ==
    /\ pc = "ls_truth"
    /\ Truthy(datasets)
    /\ KeywordGiven(keyword)
    /\ IF CompileRaises(keyword[1])
       THEN LogAndSwallow("re.compile")
       ELSE /\ datasets.lazy /\ hub.fail # None
            /\ LogAndSwallow("list_datasets")
    /\ UNCHANGED <<op, repo_name, lsVars>>
    /\ UNCHANGED <<rmVars, upVars, dlVars, cliVars>>

\* the second `if datasets:` is true: the heading of the table
ListHeader ==
    /\ pc = "ls_report"
    /\ Truthy(datasets)
    /\ stdout' = Append(stdout, Line("header", <<>>))
    /\ pc' = "ls_rows"
    /\ UNCHANGED <<op, outcome, error, errlog, repo_name, keyword, hub, datasets>>
    /\ UNCHANGED <<rmVars, upVars, dlVars, cliVars>>

\* the second `if datasets:` is false: "No matching datasets found"
ListNoMatch ==
    /\ pc = "ls_report"
    /\ ~Truthy(datasets)
    /\ stdout' = Append(stdout, Line("no_match", <<>>))
    /\ pc' = "done"
    /\ outcome' = "returned"
    /\ UNCHANGED <<op, error, errlog, repo_name, keyword, hub, datasets>>
    /\ UNCHANGED <<rmVars, upVars, dlVars, cliVars>>

\* the iterator raises where the loop asks it for the next entry
NextRaises(ds, h) == ds.lazy /\ h.fail = Some(ds.next - 1)

\* `for dataset in datasets:` one row printed
ListRow ==
    /\ pc = "ls_rows"
    /\ datasets.next <= Len(datasets.items)
    /\ ~NextRaises(datasets, hub)
    /\ stdout' = Append(stdout, Line("row", datasets.items[datasets.next]))
    /\ datasets' = [datasets EXCEPT !.next = @ + 1]
    /\ UNCHANGED <<op, pc, outcome, error, errlog, repo_name, keyword, hub>>
    /\ UNCHANGED <<rmVars, upVars, dlVars, cliVars>>

ListRowRaises ==
    /\ pc = "ls_rows"
    /\ NextRaises(datasets, hub)
    /\ LogAndSwallow("list_datasets")
    /\ UNCHANGED <<op, repo_name, lsVars>>
    /\ UNCHANGED <<rmVars, upVars, dlVars, cliVars>>

\* the loop is exhausted: the function returns None
ListReturns ==
    /\ pc = "ls_rows"
    /\ datasets.next > Len(datasets.items)
    /\ ~NextRaises(datasets, hub)
    /\ pc' = "done"
    /\ outcome' = "returned"
    /\ UNCHANGED <<op, error, errlog, repo_name, lsVars>>
    /\ UNCHANGED <<rmVars, upVars, dlVars, cliVars>>

(***************************************************************************)
(* main(): the argparse parser, parse_args() and the dispatch              *)
(***************************************************************************)
Dests == {"i", "r", "p", "u", "f", "o", "repo_name"}

\* a command line: the optional subcommand and the values given for its
\* arguments, by the attribute they are stored under
CommandLine(c, given) ==
    [command |-> c,
     values |-> [d \in Dests |-> IF d \in DOMAIN given THEN Some(given[d]) ELSE None]]

NoValues == [x \in {} |-> <<>>]

CommandLines ==
    { CommandLine(None, NoValues),
      CommandLine(Some("upload"), [i |-> <<"d", "/", "m">>]),
      CommandLine(Some("upload"), [i |-> <<"m">>, r |-> <<"o", "/", "d">>, p |-> <<"1">>]),
      CommandLine(Some("upload"), NoValues),
      CommandLine(Some("list"), NoValues),
      CommandLine(Some("list"), [f |-> <<"a">>]),
      CommandLine(Some("remove"), [repo_name |-> <<"o", "/", "d">>]),
      CommandLine(Some("remove"), [repo_name |-> <<"o", "/", "d">>, f |-> <<"1">>]),
      CommandLine(Some("remove"), [repo_name |-> <<"d">>, f |-> <<>>]),
      CommandLine(Some("download"), [repo_name |-> <<"o", "/", "d">>]),
      CommandLine(Some("download"), [repo_name |-> <<"d">>, o |-> <<"t">>]),
      CommandLine(Some("check"), [repo_name |-> <<"o", "/", "d">>]) }

\* the add_argument calls, in the order main makes them; requiredKw is the
\* `required` keyword when the call passes one
Declarations ==
    << [sub |-> "upload", dest |-> "i", positional |-> FALSE, requiredKw |-> Some(TRUE)],
       [sub |-> "upload", dest |-> "r", positional |-> FALSE, requiredKw |-> None],
       [sub |-> "upload", dest |-> "p", positional |-> FALSE, requiredKw |-> None],
       [sub |-> "list", dest |-> "u", positional |-> FALSE, requiredKw |-> None],
       [sub |-> "list", dest |-> "f", positional |-> FALSE, requiredKw |-> None],
       [sub |-> "remove", dest |-> "repo_name", positional |-> TRUE, requiredKw |-> Some(TRUE)],
       [sub |-> "remove", dest |-> "f", positional |-> FALSE, requiredKw |-> None],
       [sub |-> "download", dest |-> "repo_name", positional |-> TRUE, requiredKw |-> None],
       [sub |-> "download", dest |-> "o", positional |-> FALSE, requiredKw |-> None],
       [sub |-> "check", dest |-> "repo_name", positional |-> TRUE, requiredKw |-> None] >>

\* argparse: add_argument raises TypeError ("'required' is an invalid
\* argument for positionals") when a positional is given the keyword
AddArgumentRaises(decl) == decl.positional /\ decl.requiredKw # None

\* building the parser raises at the first add_argument call that does
BuildParserRaises == \E k \in 1..Len(Declarations) : AddArgumentRaises(Declarations[k])

\* the attributes parse_args() sets for a subcommand
Namespace(sub) ==
    {"command"} \cup {Declarations[k].dest : k \in {j \in 1..Len(Declarations) :
                                                      Declarations[j].sub = sub}}

\* parse_args() exits with status 2 when a required argument is missing
ParseArgsExits(a) ==
    /\ a.command # None
    /\ \E k \in 1..Len(Declarations) :
          /\ Declarations[k].sub = a.command[1]
          /\ Declarations[k].positional \/ Declarations[k].requiredKw = Some(TRUE)
          /\ a.values[Declarations[k].dest] = None

\* type=str with a default
StrArg(a, d, default) == IF a.values[d] = None THEN default ELSE a.values[d][1]

\* type=bool, default False: bool(s) is true of every string but ''
BoolArg(a, d) == IF a.values[d] = None THEN FALSE ELSE a.values[d][1] # <<>>

\* the attributes the branch of the dispatch for a subcommand reads
AttributesRead(sub) ==
    CASE sub = "upload" -> {"i", "r", "p"}
      [] sub = "list" -> {"u", "f"}
      [] sub = "remove" -> {"r", "f"}
      [] sub = "download" -> {"repo_name", "o"}
      [] OTHER -> {}

Raise(e) ==
    /\ pc' = "done"
    /\ outcome' = "raised"
    /\ error' = e

\* `if args.command == ...` : the call main makes for a parsed command line
Dispatch(a) ==
    IF a.command = None \/ a.command = Some("check")
    THEN /\ helpPrinted' = TRUE
         /\ pc' = "done"
         /\ outcome' = "returned"
         /\ UNCHANGED <<error, dispatched, repo_name, rmVars, lsVars, upVars, dlVars>>
    ELSE IF ~(AttributesRead(a.command[1]) \subseteq Namespace(a.command[1]))
    THEN /\ Raise("AttributeError")
         /\ UNCHANGED <<helpPrinted, dispatched, repo_name, rmVars, lsVars, upVars,
                        dlVars>>
    ELSE CASE a.command = Some("upload") ->
                /\ dispatched' = Some("upload_dataset")
                /\ dataset_path' = StrArg(a, "i", <<>>)
                /\ repo_name' = a.values["r"]
                /\ public' = BoolArg(a, "p")
                /\ pc' = "up_load"
                /\ UNCHANGED <<helpPrinted, outcome, error, pushCalls, rmVars, lsVars,
                               dlVars>>
           [] a.command = Some("list") ->
                /\ dispatched' = Some("list_datasets")
                /\ keyword' = a.values["f"]
                /\ hub' \in HubStates
                /\ pc' = "ls_call"
                /\ UNCHANGED <<helpPrinted, outcome, error, repo_name, datasets, stdout,
                               rmVars, upVars, dlVars>>
           [] a.command = Some("remove") ->
                /\ dispatched' = Some("remove_dataset")
                /\ repo_name' = StrArg(a, "r", <<>>)
                /\ force' = BoolArg(a, "f")
                /\ pc' = "rm_check"
                /\ UNCHANGED <<helpPrinted, outcome, error, confirm, prompts,
                               deleteCalls, lsVars, upVars, dlVars>>
           [] a.command = Some("download") ->
                /\ dispatched' = Some("download_dataset")
                /\ repo_name' = StrArg(a, "repo_name", <<>>)
                /\ output_dir' = StrArg(a, "o", <<".", "/">>)
                /\ \E d \in InitialDisks(output_dir') : disk0' = d /\ disk' = d
                /\ pc' = "dw_load"
                /\ UNCHANGED <<helpPrinted, outcome, error, configs, i, fetchCalls,
                               saveCalls, completed, failedAt, rmVars, lsVars, upVars>>

\* main(): build the parser, parse the command line, dispatch
Main ==
    /\ pc = "idle"
    /\ op' = "main"
    /\ errlog' = errlog
    /\ \E a \in CommandLines :
          /\ argv' = a
          /\ IF BuildParserRaises
             THEN /\ Raise("TypeError")
                  /\ UNCHANGED <<helpPrinted, dispatched, repo_name, rmVars, lsVars,
                                 upVars, dlVars>>
             ELSE IF ParseArgsExits(a)
             THEN /\ Raise("SystemExit")
                  /\ UNCHANGED <<helpPrinted, dispatched, repo_name, rmVars, lsVars,
                                 upVars, dlVars>>
             ELSE Dispatch(a)

Init ==
    /\ op = "none"
    /\ pc = "idle"
    /\ outcome = "none"
    /\ error = "none"
    /\ repo_name = None
    /\ force = FALSE
    /\ confirm = None
    /\ prompts = 0
    /\ deleteCalls = <<>>
    /\ keyword = None
    /\ hub = [lazy |-> FALSE, items |-> <<>>, fail |-> None]
    /\ datasets = [lazy |-> FALSE, items |-> <<>>, next |-> 1]
    /\ stdout = <<>>
    /\ errlog = 0
    /\ dataset_path = <<>>
    /\ public = FALSE
    /\ pushCalls = <<>>
    /\ output_dir = <<>>
    /\ configs = <<>>
    /\ i = 0
    /\ fetchCalls = <<>>
    /\ saveCalls = <<>>
    /\ completed = <<>>
    /\ failedAt = 0
    /\ disk0 = {}
    /\ disk = {}
    /\ argv = CommandLine(None, NoValues)
    /\ dispatched = None
    /\ helpPrinted = FALSE

Next ==
    \/ CallRemove
    \/ RemoveForced
    \/ RemovePrompt
    \/ RemovePromptEOF
    \/ RemoveDelete
    \/ CallDownloadAll
    \/ GetConfigNames
    \/ GetConfigNamesRaises
    \/ Makedirs
    \/ MakedirsRaises
    \/ LoadDataset
    \/ LoadDatasetRaises
    \/ SaveToDisk
    \/ SaveToDiskRaises
    \/ DownloadAllReturns
    \/ CallDownload
    \/ WholeLoad
    \/ WholeMakedirs
    \/ WholeSave
    \/ CallUpload
    \/ LoadFromDisk
    \/ LoadFromDiskRaises
    \/ PushToHub
    \/ CallList
    \/ ListCall
    \/ ListCallRaises
    \/ ListNoDatasets
    \/ ListNoKeyword
    \/ ListFilter
    \/ ListFilterRaises
    \/ ListHeader
    \/ ListNoMatch
    \/ ListRow
    \/ ListRowRaises
    \/ ListReturns
    \/ Main

Spec == Init /\ [][Next]_vars

(***************************************************************************)
(* Properties.                                                             *)
(***************************************************************************)
\* the function f is running or has run, called directly or by main
Running(f) == op = f \/ dispatched = Some(f)

\* the characters of s after its last separator, s itself when it has none
AfterLastSeparator(s) ==
    CHOOSE t \in {SubSeq(s, k, Len(s)) : k \in 1..(Len(s) + 1)} :
        /\ \A k \in 1..Len(t) : t[k] # "/"
        /\ t = s \/ EndsWith(s, <<"/">> \o t)

\* the names a path goes through, in order
NonEmpty(c) == c # <<>>
Names(path) == SelectSeq(Split(path, "/"), NonEmpty)

\* path is the directory reached from dir through the names of below
IsUnder(path, dir, below) ==
    /\ Names(path) = Names(dir) \o SelectSeq(below, NonEmpty)
    /\ StartsWith(path, <<"/">>) = StartsWith(dir, <<"/">>)

\* the completion records are one per configuration, in the order of
\* enumeration, each at outputDir/shortName/configName
OneResultPerConfig ==
    /\ Len(completed) = Len(configs)
    /\ \A k \in 1..Len(completed) :
          /\ completed[k].config = configs[k]
          /\ IsUnder(completed[k].outputPath, output_dir,
                     <<AfterLastSeparator(repo_name), configs[k]>>)

\* C1: remove_dataset without force, answered by anything but 'y' or 'Y'
\* (the empty answer, 'n', 'yes', answers with blanks around them), calls
\* delete_repo not once and returns normally.
C1_OtherAnswersCancel ==
    (/\ Running("remove_dataset")
     /\ ~force
     /\ confirm # None
     /\ confirm \notin {Some(<<"y">>), Some(<<"Y">>)})
        => /\ deleteCalls = <<>>
           /\ pc = "done"
           /\ outcome = "returned"

C1_Witness ==
    /\ Running("remove_dataset")
    /\ ~force
    /\ confirm = Some(<<"y", "e", "s">>)
    /\ deleteCalls = <<>>
    /\ outcome = "returned"

\* C2: remove_dataset with force, or answered 'y' or 'Y', calls delete_repo
\* exactly once, for the repository it was given; with force no prompt is
\* ever issued.
C2_DeleteExactlyOnce ==
    Running("remove_dataset") =>
        /\ Len(deleteCalls) <= 1
        /\ force => prompts = 0
        /\ (pc = "done" /\ (force \/ confirm \in {Some(<<"y">>), Some(<<"Y">>)}))
              => deleteCalls = <<repo_name>>

C2_Witness ==
    /\ Running("remove_dataset")
    /\ confirm = Some(<<"Y">>)
    /\ pc = "done"
    /\ deleteCalls = <<repo_name>>

CompletedConfigs == [k \in 1..Len(completed) |-> completed[k].config]

\* C4: a failure of the enumeration, or of the fetch or the save of the i-th
\* configuration, ends download_dataset with the error raised: no
\* configuration after the i-th is fetched or saved, the failed call is made
\* once, and no completion record exists for the i-th.
C4_FailureAborts ==
    (/\ op = "download_all"
     /\ error \in {"get_dataset_config_names", "load_dataset", "save_to_disk"})
        => /\ pc = "done"
           /\ outcome = "raised"
           /\ error = "get_dataset_config_names"
                 => fetchCalls = <<>> /\ saveCalls = <<>> /\ completed = <<>>
           /\ error = "load_dataset"
                 => /\ fetchCalls = SubSeq(configs, 1, failedAt)
                    /\ Len(saveCalls) = failedAt - 1
                    /\ CompletedConfigs = SubSeq(configs, 1, failedAt - 1)
           /\ error = "save_to_disk"
                 => /\ fetchCalls = SubSeq(configs, 1, failedAt)
                    /\ Len(saveCalls) = failedAt
                    /\ CompletedConfigs = SubSeq(configs, 1, failedAt - 1)

C4_Witness ==
    /\ op = "download_all"
    /\ error = "load_dataset"
    /\ failedAt = 1
    /\ Len(configs) = 2
    /\ outcome = "raised"

\* C5 as claimed: when the listing of the author is retrieved, list_datasets
\* reports exactly the entries whose id the keyword matches, in their order;
\* "no datasets found" when the author has none; "no matching datasets" when
\* the author has some and none matches.
KeywordMatches(kw, id) ==
    ~KeywordGiven(kw) \/ (~CompileRaises(kw[1]) /\ Search(kw[1], id))

RECURSIVE Matching(_, _)
Matching(items, kw) ==
    IF items = <<>> THEN <<>>
    ELSE (IF KeywordMatches(kw, Head(items)) THEN <<Head(items)>> ELSE <<>>)
             \o Matching(Tail(items), kw)

IsRow(l) == l.kind = "row"
RowIds == LET rows == SelectSeq(stdout, IsRow) IN [k \in 1..Len(rows) |-> rows[k].id]

C5_AsClaimed ==
    (Running("list_datasets") /\ pc = "done" /\ hub.fail = None)
        => IF hub.items = <<>>
           THEN stdout = <<Line("no_datasets", <<>>)>>
           ELSE IF Matching(hub.items, keyword) = <<>>
           THEN stdout = <<Line("no_match", <<>>)>>
           ELSE /\ RowIds = Matching(hub.items, keyword)
                /\ stdout[1] = Line("header", <<>>)

\* C6 as claimed: list_datasets never raises; a failure of the retrieval is
\* logged and swallowed, the function returns normally, and no row is
\* reported in that invocation.
C6_AsClaimed ==
    Running("list_datasets") =>
        /\ outcome # "raised"
        /\ error = "list_datasets"
              => /\ pc = "done"
                 /\ outcome = "returned"
                 /\ errlog = 1
                 /\ RowIds = <<>>

\* the final component of a path once normalised, found from its end: a name
\* counts unless a later '..' takes it back
RECURSIVE FinalFrom(_, _, _)
FinalFrom(comps, skip, absolute) ==
    IF comps = <<>>
    THEN IF absolute THEN <<>> ELSE IF skip > 0 THEN <<".", ".">> ELSE <<".">>
    ELSE LET c == Last(comps)
             rest == SubSeq(comps, 1, Len(comps) - 1)
         IN IF c \in {<<>>, <<".">>} THEN FinalFrom(rest, skip, absolute)
            ELSE IF c = <<".", ".">> THEN FinalFrom(rest, skip + 1, absolute)
            ELSE IF skip > 0 THEN FinalFrom(rest, skip - 1, absolute)
            ELSE c

FinalComponent(path) == FinalFrom(Split(path, "/"), 0, StartsWith(path, <<"/">>))

\* C7: upload_dataset pushes to the final component of the normalised
\* dataset_path when repo_name is omitted and to repo_name unchanged when it
\* is given, private exactly when public is false; when load_from_disk
\* fails nothing is pushed and the error is raised.
C7_UploadTarget ==
    Running("upload_dataset") =>
        /\ Len(pushCalls) <= 1
        /\ error = "load_from_disk"
              => pushCalls = <<>> /\ pc = "done" /\ outcome = "raised"
        /\ \A k \in 1..Len(pushCalls) :
              /\ pushCalls[k].private = (public = FALSE)
              /\ repo_name = None => pushCalls[k].repo = FinalComponent(dataset_path)
              /\ repo_name # None => pushCalls[k].repo = repo_name[1]

C7_Witness ==
    /\ Running("upload_dataset")
    /\ repo_name = None
    /\ dataset_path = <<"d", "/", "m", "/">>
    /\ pushCalls = <<[repo |-> <<"m">>, private |-> TRUE]>>

\* C8 as claimed: main with no subcommand prints the help and ends with
\* status 0, calls none of the operations and raises nothing.
C8_AsClaimed ==
    (op = "main" /\ argv.command = None)
        => /\ helpPrinted
           /\ outcome = "returned"
           /\ dispatched = None

\* C9 as claimed: main with `remove <repoId>` calls remove_dataset with the
\* repository named on the command line and the -f value as force.
C9_AsClaimed ==
    (op = "main" /\ argv.command = Some("remove") /\ argv.values["repo_name"] # None)
        => /\ dispatched = Some("remove_dataset")
           /\ repo_name = argv.values["repo_name"][1]
           /\ force = BoolArg(argv, "f")

\* the dataset directories written since the call
DatasetsWritten == {e \in disk \ disk0 : e.kind = "dataset"}

\* C10: download_dataset rolls nothing back.  When the fetch or the save of
\* the i-th configuration fails, the configurations 1..i-1, and only they,
\* have been saved, in the order of enumeration, at
\* outputDir/shortName/configName, and are on disk; nothing is created
\* before the enumeration succeeded, so a failed enumeration leaves the
\* filesystem as it was.
C10_NoRollback ==
    op = "download_all" =>
        /\ (pc = "dl_list" \/ error = "get_dataset_config_names") => disk = disk0
        /\ error \in {"load_dataset", "save_to_disk"}
              => /\ Len(saveCalls) >= failedAt - 1
                 /\ \A k \in 1..(failedAt - 1) :
                       /\ IsUnder(saveCalls[k], output_dir,
                                  <<AfterLastSeparator(repo_name), configs[k]>>)
                       /\ Dataset(saveCalls[k]) \in disk
                 /\ DatasetsWritten = {Dataset(saveCalls[k]) : k \in 1..(failedAt - 1)}

C10_Witness ==
    /\ op = "download_all"
    /\ error = "save_to_disk"
    /\ failedAt = 2
    /\ Dataset(saveCalls[1]) \in disk
    /\ Partial(saveCalls[2]) \in disk

====
